---- MODULE Spec2Model ----
(***************************************************************************)
(* Radio player: the /api/radio-stats proxy of server.ts (first handler)   *)
(* and the RadioPlayer component (metadata polling, history, persistence). *)
(*                                                                         *)
(* Strings are sequences of one-character strings, so that split and join  *)
(* are computed as the JavaScript runtime computes them.  Multi-character  *)
(* elements are used only for literals that no operation looks inside.     *)
(***************************************************************************)
EXTENDS Integers, Sequences, FiniteSets, TLC

\* ------------------------------------------------------------------ bounds
\* metadata polls issued over one behaviour (timer ticks and mounts)
MaxPolls == 2
\* largest value of the wall clock read by Date.now()
MaxClock == 1

\* ------------------------------------------------------- string utilities
\* the JavaScript value undefined (absent field, unset variable)
Undefined == <<"undefined">>
\* the JavaScript value null
Null == <<"null">>

Min(S) == CHOOSE x \in S : \A y \in S : x <= y

Last(s) == s[Len(s)]

\* sep occurs in s at position i
IsAt(s, sep, i) ==
    /\ i + Len(sep) - 1 <= Len(s)
    /\ SubSeq(s, i, i + Len(sep) - 1) = sep

\* String.prototype.split with a non-empty separator
RECURSIVE Split(_, _)
Split(s, sep) ==
    LET hits == {i \in 1..Len(s) : IsAt(s, sep, i)}
    IN  IF hits = {}
        THEN <<s>>
        ELSE LET i == Min(hits)
             IN  <<SubSeq(s, 1, i - 1)>>
                   \o Split(SubSeq(s, i + Len(sep), Len(s)), sep)

\* Array.prototype.join
RECURSIVE Join(_, _)
Join(parts, sep) ==
    IF Len(parts) = 0 THEN <<>>
    ELSE IF Len(parts) = 1 THEN parts[1]
    ELSE parts[1] \o sep \o Join(Tail(parts), sep)

\* String.prototype.replace(pattern, by) with a string pattern: first
\* occurrence only
Replace(s, pat, by) ==
    LET hits == {i \in 1..Len(s) : IsAt(s, pat, i)}
    IN  IF hits = {}
        THEN s
        ELSE LET i == Min(hits)
             IN  SubSeq(s, 1, i - 1) \o by \o SubSeq(s, i + Len(pat), Len(s))

\* JavaScript truthiness of a string-or-undefined value
Truthy(v) == v # Undefined /\ v # Null /\ v # <<>>

\* the characters of the songtitles that are split, and their longest length
TitleAlphabet == {"A", " ", "-"}
MaxTitleLen == 9

\* every non-empty string over the alphabet: what passes `data.songtitle &&`
TitleInputs == UNION {[1..n -> TitleAlphabet] : n \in 1..MaxTitleLen}

\* ------------------------------------------------------- upstream contents
\* "artist - title" strings the station may report
TitleAS == <<"A", " ", "-", " ", "S">>
TitleBT == <<"B", " ", "-", " ", "T">>
Titles == {TitleAS, TitleBT}

\* JSON documents.  A document is null or an object; of an object only the
\* fields some reader of this repository looks at are kept.
JsonObject(songtitle, icestatsTitle, error, details) ==
    [kind |-> "object", songtitle |-> songtitle, icestatsTitle |-> icestatsTitle,
     error |-> error, details |-> details]

JsonNull ==
    [kind |-> "null", songtitle |-> Undefined, icestatsTitle |-> Undefined,
     error |-> Undefined, details |-> Undefined]

\* Shoutcast /stats?json=1: { "songtitle": "Artist - Song", ... }
ShoutcastDoc(t) == JsonObject(t, Undefined, Undefined, Undefined)
\* Icecast /status-json.xsl: { "icestats": { "source": { "title": ... } } }
IcecastDoc(t) == JsonObject(Undefined, t, Undefined, Undefined)

JsonDocs ==
    {ShoutcastDoc(t) : t \in Titles} \cup {IcecastDoc(TitleAS), JsonNull}

\* legacy /7.html status lines: listeners,1,max,99,unique,128,Artist - Song
Comma == <<",">>
LegacyLine(fields) == Join(fields, Comma)
LegacyTexts ==
    { LegacyLine(<< <<"0">>, <<"1">>, <<"2">>, <<"9">>, <<"1">>, <<"8">>, TitleAS >>),
      LegacyLine(<< <<"0">>, <<"1">>, <<"2">>, <<"9">>, <<"1">>, <<"8">>, TitleBT, <<"x">> >>),
      LegacyLine(<< <<"0">>, <<"1">>, <<"2">> >>),
      <<>> }

\* --------------------------------------------------------------- variables
VARIABLES
    req,          \* the /api/radio-stats handler invocation in progress (server.ts)
    metadata,     \* RadioPlayer state: the displayed track
    history,      \* RadioPlayer state: recently seen tracks, newest first
    isLiked,      \* RadioPlayer state: the like flag
    isLoading,    \* RadioPlayer state: the loading indicator
    lyrics,       \* RadioPlayer state: the lyrics shown, or null
    showLyrics,   \* RadioPlayer state: whether the lyrics panel is open
    localStorage, \* the browser's local storage (survives a reload)
    polls,        \* the fetchMetadata calls issued so far and where each one is
    handled,      \* log: the polls whose handling has ended, in that order
    now,          \* the wall clock that Date.now() reads
    isPlaying,    \* RadioPlayer state: whether the play button shows "playing"
    audio,        \* the audio element of audioRef and its pending play() promise
    lookups,      \* log: the cover lookups of the poll whose lookup settled last
    derived,      \* the songtitle last split into a track, and that track
    lyricsReq,    \* the lyrics requests in flight: the tracks they were made for
    lyricsFor,    \* log: the track the lyrics shown were requested for
    isLyricsLoading, \* RadioPlayer state: the spinner of the lyrics panel
    showHistory,  \* RadioPlayer state: whether the history panel is open
    ai,           \* RadioPlayer state: aiInsight, isAiLoading, and the
                  \* generateContent calls in flight
    vercel        \* the serverless handler invocation in progress (App.tsx)

proxyVars == <<req>>
playerVars == <<metadata, history, isLiked, isLoading, lyrics, showLyrics,
                localStorage, polls, handled, now, isPlaying, audio, lookups,
                derived, lyricsReq, lyricsFor, isLyricsLoading, showHistory, ai>>
handlerVars == <<vercel>>
vars == <<req, vercel, metadata, history, isLiked, isLoading, lyrics, showLyrics,
          localStorage, polls, handled, now, isPlaying, audio, lookups, derived,
          lyricsReq, lyricsFor, isLyricsLoading, showHistory, ai>>

\* ------------------------------------------------- proxy: /api/radio-stats
UrlA == "https://streaming.fox.srv.br:8150/stats?json=1"
UrlB == "https://streaming.fox.srv.br:8150/status-json.xsl"
UrlAHttp == "http://streaming.fox.srv.br:8150/stats?json=1"
UrlLegacy == "https://streaming.fox.srv.br:8150/7.html"

\* endpoints with the first two entries exchanged
endpointsReordered == <<UrlB, UrlA, UrlAHttp>>

\* const endpoints = [...]
endpoints == <<UrlA, UrlB, UrlAHttp>>

\* what JSON.parse / response.json() gives for a body that is not JSON
JsonSyntaxError ==
    [kind |-> "SyntaxError", songtitle |-> Undefined, icestatsTitle |-> Undefined,
     error |-> Undefined, details |-> Undefined]

\* a response body: its text, and what parsing that text as JSON gives
Body(text, parsed) == [text |-> text, parsed |-> parsed]
OpaqueText == <<"...">>
NoBody == Body(<<>>, JsonSyntaxError)

\* what one upstream fetch may produce: the fetch rejects (network error, TLS
\* failure, timeout), or it resolves to a response
FetchThrew ==
    [threw |-> TRUE, ok |-> FALSE, ctype |-> "", body |-> NoBody]
Response(ok, ctype, body) ==
    [threw |-> FALSE, ok |-> ok, ctype |-> ctype, body |-> body]

ContentTypes == {"application/json", "text/html"}

JsonBodies ==
    {Body(OpaqueText, d) : d \in JsonDocs} \cup {Body(OpaqueText, JsonSyntaxError)}

\* replies of the three JSON status endpoints
StatusReplies ==
    {FetchThrew, Response(FALSE, "text/html", NoBody)}
      \cup {Response(TRUE, ct, b) : ct \in ContentTypes, b \in JsonBodies}

\* replies of /7.html
LegacyReplies ==
    {FetchThrew, Response(FALSE, "text/html", NoBody)}
      \cup {Response(TRUE, "text/html", Body(t, JsonSyntaxError)) : t \in LegacyTexts}

\* error.message of the errors the loop's catch may see
ErrFetch == <<"request failed">>
ErrJson == <<"invalid json">>

NoResponse == [status |-> 0, body |-> JsonNull]

\* res.json(data)
ResJson(data) == [status |-> 200, body |-> data]

\* lastError instanceof Error ? lastError.message : String(lastError)
Details(lastError) ==
    IF lastError = Null THEN <<"n", "u", "l", "l">> ELSE lastError

GenericError == <<"Failed to fetch metadata from all sources">>

\* res.status(500).json({ error, details })
ResFailure(lastError) ==
    [status |-> 500,
     body |-> JsonObject(Undefined, Undefined, GenericError, Details(lastError))]

\* contentType && contentType.includes("application/json")
IsJsonContentType(reply) == reply.ctype = "application/json"

\* one iteration of the for loop after its fetch has settled: "data" when the
\* iteration returns res.json(data), "caught" when the catch block runs,
\* "next" when it falls through to the next endpoint
IterationResult(reply) ==
    IF reply.threw THEN "caught"
    ELSE IF ~reply.ok THEN "next"
    ELSE IF IsJsonContentType(reply)
         THEN IF reply.body.parsed.kind = "SyntaxError" THEN "caught" ELSE "data"
         ELSE IF reply.body.parsed.kind = "SyntaxError" THEN "next" ELSE "data"

\* the error the catch block stores in lastError
CaughtError(reply) == IF reply.threw THEN ErrFetch ELSE ErrJson

IdleRequest ==
    [pc |-> "idle", idx |-> 1, lastError |-> Null,
     contacted |-> <<>>, replies |-> <<>>, res |-> NoResponse]

\* a GET /api/radio-stats arrives: the handler runs up to its first await,
\* the fetch of endpoints[0]
Request ==
    /\ req.pc \in {"idle", "done"}
    /\ req' = [IdleRequest EXCEPT !.pc = "loop", !.contacted = <<endpoints[1]>>]
    /\ UNCHANGED <<playerVars, vercel>>

\* the first endpoint fetched a second time after its first failure
AdvanceRetryOnce(r) ==
    IF r.idx = 1 /\ Len(r.contacted) = 1
    THEN [r EXCEPT !.contacted = Append(r.contacted, endpoints[1])]
    ELSE IF r.idx < Len(endpoints)
    THEN [r EXCEPT !.idx = r.idx + 1,
                   !.contacted = Append(r.contacted, endpoints[r.idx + 1])]
    ELSE [r EXCEPT !.pc = "legacy",
                   !.contacted = Append(r.contacted, UrlLegacy)]

\* where the loop goes after an iteration that did not return: the fetch of
\* the next endpoint, or after the last one the fetch of /7.html
Advance(r) ==
    IF r.idx < Len(endpoints)
    THEN [r EXCEPT !.idx = r.idx + 1,
                   !.contacted = Append(r.contacted, endpoints[r.idx + 1])]
    ELSE [r EXCEPT !.pc = "legacy",
                   !.contacted = Append(r.contacted, UrlLegacy)]

\* res.json(data) without the return: the loop goes on
ReturnJsonAndContinue(r, data) == Advance([r EXCEPT !.res = ResJson(data)])

\* return res.json(data): the handler ends
ReturnJson(r, data) == [r EXCEPT !.pc = "done", !.res = ResJson(data)]

\* the fetch of endpoints[idx] settles and the handler runs to its next await
TryEndpoint ==
    /\ req.pc = "loop"
    /\ \E reply \in StatusReplies :
         LET r == [req EXCEPT !.replies = Append(req.replies, reply)]
             result == IterationResult(reply)
         IN  req' = IF result = "data"
                    THEN ReturnJson(r, reply.body.parsed)
                    ELSE IF result = "caught"
                    THEN Advance([r EXCEPT !.lastError = CaughtError(reply)])
                    ELSE Advance(r)
    /\ UNCHANGED <<playerVars, vercel>>

\* parts.length >= 7
LegacyMinParts == 7

\* parts[5]
LegacySongtitleOffByOne(parts) == parts[6]

\* parts[6]
LegacySongtitle(parts) == parts[7]

\* the legacy attempt without the parts.length test
LegacyResultUnchecked(reply, lastError) ==
    IF ~reply.threw /\ reply.ok
    THEN LET parts == Split(reply.body.text, Comma)
         IN  ResJson(ShoutcastDoc(IF Len(parts) >= LegacyMinParts
                                  THEN LegacySongtitle(parts) ELSE Undefined))
    ELSE ResFailure(lastError)

\* the legacy attempt after its fetch has settled: the response it returns
LegacyResult(reply, lastError) ==
    IF ~reply.threw /\ reply.ok
    THEN LET parts == Split(reply.body.text, Comma)
         IN  IF Len(parts) >= LegacyMinParts
             THEN ResJson(ShoutcastDoc(LegacySongtitle(parts)))
             ELSE ResFailure(lastError)
    ELSE ResFailure(lastError)

\* the fetch of /7.html settles and the handler responds
TryLegacy ==
    /\ req.pc = "legacy"
    /\ \E reply \in LegacyReplies :
         req' = [req EXCEPT !.pc = "done",
                            !.replies = Append(req.replies, reply),
                            !.res = LegacyResult(reply, req.lastError)]
    /\ UNCHANGED <<playerVars, vercel>>

ProxyInit == req = IdleRequest

NextProxy ==
    \/ Request
    \/ TryEndpoint
    \/ TryLegacy

\* every answer the handler can send, as the browser receives it
ProxyAnswers ==
    {ResJson(d) : d \in JsonDocs}
      \cup {LegacyResult(reply, e) : reply \in LegacyReplies,
                                     e \in {Null, ErrFetch, ErrJson}}

\* ------------------------------------------------- serverless: handler
\* String.prototype.trim, for the one kind of white space the titles have
RECURSIVE TrimStart(_)
TrimStart(s) == IF s # <<>> /\ Head(s) = " " THEN TrimStart(Tail(s)) ELSE s

RECURSIVE TrimEnd(_)
TrimEnd(s) ==
    IF s # <<>> /\ Last(s) = " " THEN TrimEnd(SubSeq(s, 1, Len(s) - 1)) ELSE s

Trim(s) == TrimEnd(TrimStart(s))

\* || "Desconhecido"
UnknownSong == <<"Desconhecido">>

\* a title that status-json.xsl gives as a JSON number
NumberTitle == <<"1979 as a number">>

\* what response.json() may resolve to for the station status
HandlerDocs ==
    {JsonNull, ShoutcastDoc(TitleAS), IcecastDoc(<<>>), IcecastDoc(NumberTitle)}
      \cup {IcecastDoc(t) : t \in TitleInputs}

\* data?.icestats?.source?.title || "Desconhecido"
Song(data) ==
    IF data.kind = "object" /\ Truthy(data.icestatsTitle)
    THEN data.icestatsTitle
    ELSE UnknownSong

\* const [artist, title] = song.includes(" - ") ? song.split(" - ") : ["", song]
SongParts(song) ==
    LET parts == Split(song, <<" ", "-", " ">>)
    IN  IF Len(parts) > 1
        THEN [artist |-> parts[1], title |-> parts[2]]
        ELSE [artist |-> <<>>, title |-> song]

\* what the iTunes search of the handler may produce: the request or its
\* json() rejects, the document is null, the result list is empty, the first
\* result has no artworkUrl100, or it has one
CoverReplies == {"threw", "null", "empty", "noArtwork", "hit"}

HandlerArtwork == <<"https://itunes/art/", "100x100bb", ".jpg">>

\* cover = null; if (coverData?.results?.length > 0)
\*   cover = results[0].artworkUrl100?.replace("100x100bb", "300x300bb") || null
Cover(reply) ==
    IF reply = "hit"
    THEN Replace(HandlerArtwork, <<"100x100bb">>, <<"300x300bb">>)
    ELSE Null

HandlerError == <<"Erro ao obter dados da radio">>

NoHandlerResponse ==
    [status |-> 0, artist |-> Undefined, title |-> Undefined,
     cover |-> Undefined, error |-> Undefined]

\* the artist and title sent as they were split
HandlerOkUntrimmed(artist, title, cover) ==
    [status |-> 200, artist |-> artist, title |-> title,
     cover |-> cover, error |-> Undefined]

\* res.status(200).json({ artist: artist.trim(), title: title.trim(), cover })
HandlerOk(artist, title, cover) ==
    [status |-> 200, artist |-> Trim(artist), title |-> Trim(title),
     cover |-> cover, error |-> Undefined]

\* res.status(500).json({ error: "Erro ao obter dados da rádio" })
HandlerFailure ==
    [status |-> 500, artist |-> Undefined, title |-> Undefined,
     cover |-> Undefined, error |-> HandlerError]

\* no invocation yet; station is the document status-json.xsl serves, log
\* holds what each request of the invocation gave, sent counts the calls of
\* res.json
IdleHandler ==
    [pc |-> "idle", station |-> JsonNull, song |-> Undefined,
     parts |-> [artist |-> Undefined, title |-> Undefined],
     log |-> <<>>, sent |-> 0, res |-> NoHandlerResponse]

\* a request arrives: the handler runs up to its first await, the fetch of
\* status-json.xsl
HandlerRequest ==
    /\ vercel.pc = "idle"
    /\ vercel' = [vercel EXCEPT !.pc = "status"]
    /\ UNCHANGED <<req, playerVars>>

\* the status request settles: a throw (of fetch or of json()) is answered
\* with the 500; of the document served, a title that is no string throws at
\* song.includes, and any other leads to the cover request
HandlerStatus ==
    /\ vercel.pc = "status"
    /\ \/ vercel' = [vercel EXCEPT !.pc = "done", !.log = <<"threw">>,
                                     !.sent = @ + 1, !.res = HandlerFailure]
       \/ LET song == Song(vercel.station)
          IN  IF song = NumberTitle
              THEN vercel' = [vercel EXCEPT !.pc = "done", !.log = <<"ok">>,
                                            !.song = song, !.sent = @ + 1,
                                            !.res = HandlerFailure]
              ELSE vercel' = [vercel EXCEPT !.pc = "cover", !.log = <<"ok">>,
                                            !.song = song,
                                            !.parts = SongParts(song)]
    /\ UNCHANGED <<req, playerVars>>

\* the cover request settles: a throw is answered with the 500, anything else
\* with the 200
HandlerCover ==
    /\ vercel.pc = "cover"
    /\ \E reply \in CoverReplies :
         vercel' =
            [vercel EXCEPT
               !.pc = "done",
               !.log = Append(@, reply),
               !.sent = @ + 1,
               !.res = IF reply = "threw"
                       THEN HandlerFailure
                       ELSE HandlerOk(vercel.parts.artist, vercel.parts.title,
                                      Cover(reply))]
    /\ UNCHANGED <<req, playerVars>>

HandlerInit == vercel = IdleHandler

NextHandler ==
    \/ HandlerRequest
    \/ HandlerStatus
    \/ HandlerCover

\* ------------------------------------------------- player: RadioPlayer
LoadingTitle == <<"Carregando...">>
ErrorTitle == <<"Erro ao carregar metadados">>
StationName == <<"SoundPop">>
Separator == <<" ", "-", " ">>

\* useState<RadioMetadata>({ songtitle: 'Carregando...', status: 'offline' })
InitialMetadata ==
    [songtitle |-> LoadingTitle, artist |-> Undefined,
     status |-> "offline", cover |-> Undefined]

\* the split of the serverless handler: const [artist, title] = song.split(" - ")
DeriveTrackTwoParts(songtitle) ==
    LET parts == Split(songtitle, Separator)
        artistName == parts[1]
        second == IF Len(parts) > 1 THEN parts[2] ELSE <<>>
    IN  [songTitle |-> IF Truthy(second) THEN second ELSE songtitle,
         artist |-> IF Truthy(artistName) THEN artistName ELSE StationName]

\* const [artistName, ...songParts] = data.songtitle.split(' - ');
\* const songTitle = songParts.join(' - ') || data.songtitle;
\* const artist = artistName || 'SoundPop';
DeriveTrack(songtitle) ==
    LET parts == Split(songtitle, Separator)
        artistName == parts[1]
        joined == Join(Tail(parts), Separator)
    IN  [songTitle |-> IF Truthy(joined) THEN joined ELSE songtitle,
         artist |-> IF Truthy(artistName) THEN artistName ELSE StationName]

\* the default artist of the earlier component
FoxName == <<"Rádio Fox">>

\* const [artist, ...songParts] = data.songtitle.split(' - ');
\* songtitle: songParts.join(' - ') || data.songtitle, artist: artist || 'Rádio Fox'
DeriveTrackFox(songtitle) ==
    LET parts == Split(songtitle, Separator)
        artistName == parts[1]
        joined == Join(Tail(parts), Separator)
    IN  [songTitle |-> IF Truthy(joined) THEN joined ELSE songtitle,
         artist |-> IF Truthy(artistName) THEN artistName ELSE FoxName]

\* ---- local storage
NoItem == [json |-> "none", items |-> <<>>]
Omitted == <<"omitted">>

\* JSON.stringify of a history list: a key whose value is undefined is left out
Stringify(list) ==
    [json |-> "array",
     items |-> [i \in 1..Len(list) |->
                  [list[i] EXCEPT !.cover =
                      IF list[i].cover = Undefined THEN Omitted ELSE list[i].cover]]]

\* JSON.parse of a stored history list: reading a key that is not there gives
\* undefined
Parse(value) ==
    [i \in 1..Len(value.items) |->
       [value.items[i] EXCEPT !.cover =
           IF value.items[i].cover = Omitted THEN Undefined ELSE value.items[i].cover]]

HistoryItem(songtitle, artist, cover, timestamp) ==
    [songtitle |-> songtitle, artist |-> artist, cover |-> cover,
     timestamp |-> timestamp]

\* .slice(0, 10)
MaxHistory == 10

\* the list kept whole
SliceUnbounded(list) == list

\* updatedHistory = [...].slice(0, 10)
Slice(list) == SubSeq(list, 1, IF Len(list) < MaxHistory THEN Len(list) ELSE MaxHistory)

\* the new item put behind the previous ones
PrependAtEnd(newItem, prev) == Append(prev, newItem)

\* [newItem, ...prev]
Prepend(newItem, prev) == <<newItem>> \o prev

\* no comparison with the newest item
SameTrackNever(prev, songTitle, artist) == FALSE

\* lastItem && lastItem.songtitle === songTitle && lastItem.artist === artist
SameTrack(prev, songTitle, artist) ==
    /\ Len(prev) > 0
    /\ prev[1].songtitle = songTitle
    /\ prev[1].artist = artist

\* the setHistory updater of fetchMetadata
UpdatedHistory(prev, songTitle, artist, coverUrl, timestamp) ==
    IF SameTrack(prev, songTitle, artist)
    THEN prev
    ELSE Slice(Prepend(HistoryItem(songTitle, artist, coverUrl, timestamp), prev))

\* what a previous session left under 'radio_history': nothing, or the list
\* written after n alternating tracks whose cover lookups found nothing
RECURSIVE PastHistory(_)
PastHistory(n) ==
    IF n = 0 THEN <<>>
    ELSE UpdatedHistory(PastHistory(n - 1),
                        DeriveTrack(IF n % 2 = 1 THEN TitleAS ELSE TitleBT).songTitle,
                        DeriveTrack(IF n % 2 = 1 THEN TitleAS ELSE TitleBT).artist,
                        Undefined, 0)

StoredHistories == {NoItem, Stringify(PastHistory(MaxHistory - 1))}

\* ---- polls
PollIds == 1..MaxPolls

Unissued == [pc |-> "unissued", songTitle |-> Undefined, artist |-> Undefined]
Awaiting(pc, songTitle, artist) == [pc |-> pc, songTitle |-> songTitle, artist |-> artist]
Ended == [pc |-> "done", songTitle |-> Undefined, artist |-> Undefined]

\* the next call of fetchMetadata takes the lowest free number
NextPoll == Min({p \in PollIds : polls[p].pc = "unissued"})

Handled(p, kind, status, songTitle, artist) ==
    [id |-> p, kind |-> kind, status |-> status,
     songTitle |-> songTitle, artist |-> artist]

\* the like flag restored after the history, inside the same try
MountedLikeUnlessCorrupt(store) ==
    store.radio_history.json # "corrupt" /\ store.radio_liked = "true"

\* the mount effects: fetchMetadata() is called, then the like flag and the
\* history are restored from local storage
MountedLike(store) == store.radio_liked = "true"

\* the history effect left out: the list starts empty on every mount
MountedHistoryNothing(store) == <<>>

MountedHistory(store) ==
    IF store.radio_history.json = "array" THEN Parse(store.radio_history) ELSE <<>>

\* setInterval(fetchMetadata, 10000) fires: a new poll starts, whatever the
\* earlier ones are doing
Timer ==
    /\ \E p \in PollIds : polls[p].pc = "unissued"
    /\ polls' = [polls EXCEPT ![NextPoll] = Awaiting("proxy", Undefined, Undefined)]
    /\ UNCHANGED <<req, vercel, metadata, history, isLiked, isLoading, lyrics, showLyrics,
                   localStorage, handled, now>>
    /\ UNCHANGED <<isPlaying, audio, lookups, derived, lyricsReq,
                   lyricsFor, isLyricsLoading, showHistory, ai>>

\* the placeholder set without ...prev
MetadataAfterErrorNoSpread(prev) ==
    [songtitle |-> ErrorTitle, artist |-> StationName,
     status |-> "online", cover |-> Undefined]

\* the catch block of fetchMetadata
MetadataAfterError(prev) ==
    [prev EXCEPT !.status = "online", !.songtitle = ErrorTitle, !.artist = StationName]

\* fetch(METADATA_URL) or response.json() rejects
PollThrows(p) ==
    /\ polls[p].pc = "proxy"
    /\ metadata' = MetadataAfterError(metadata)
    /\ polls' = [polls EXCEPT ![p] = Ended]
    /\ handled' = Append(handled, Handled(p, "error", 0, Undefined, Undefined))
    /\ UNCHANGED <<req, vercel, history, isLiked, isLoading, lyrics, showLyrics,
                   localStorage, now>>
    /\ UNCHANGED <<isPlaying, audio, lookups, derived, lyricsReq,
                   lyricsFor, isLyricsLoading, showHistory, ai>>

\* data && data.songtitle
HasSongtitle(data) == data.kind = "object" /\ Truthy(data.songtitle)

\* the proxy's answer arrives and parses: with a songtitle the poll goes on to
\* the iTunes lookup, without one fetchMetadata ends having changed nothing
PollAnswered(p) ==
    /\ polls[p].pc = "proxy"
    /\ \E answer \in ProxyAnswers :
         IF HasSongtitle(answer.body)
         THEN LET track == DeriveTrack(answer.body.songtitle)
              IN  /\ polls' = [polls EXCEPT
                         ![p] = Awaiting("itunes", track.songTitle, track.artist)]
                  /\ UNCHANGED handled
         ELSE /\ polls' = [polls EXCEPT ![p] = Ended]
              /\ handled' = Append(handled,
                     Handled(p, "ignored", answer.status, Undefined, Undefined))
    /\ UNCHANGED <<req, vercel, metadata, history, isLiked, isLoading, lyrics, showLyrics,
                   localStorage, now>>
    /\ UNCHANGED <<isPlaying, audio, lookups, derived, lyricsReq,
                   lyricsFor, isLyricsLoading, showHistory, ai>>

\* ---- tracks named in requests
NoTrack == [artist |-> Undefined, songtitle |-> Undefined]

\* ${metadata.artist} and ${metadata.songtitle} as a request puts them in its URL
DisplayedTrack == [artist |-> metadata.artist, songtitle |-> metadata.songtitle]

\* ---- cover art
ItunesArtwork == <<"https://itunes/art/", "100x100", "bb.jpg">>
DeezerCover == <<"https://deezer/cover_xl.jpg">>

\* artworkUrl100.replace('100x100', '600x600')
LargeArtwork(artworkUrl100) == Replace(artworkUrl100, <<"100x100">>, <<"600x600">>)

\* what a catalog lookup may produce: the request or its json() rejects, the
\* result list is missing or empty, or it holds a hit
LookupResults == {"threw", "empty", "hit"}

\* setMetadata skipped when no cover was found
NewMetadataIfCover(p, prev, songTitle, artist, coverUrl) ==
    IF coverUrl = Undefined
    THEN prev
    ELSE [songtitle |-> songTitle, artist |-> artist,
          status |-> "online", cover |-> coverUrl]

\* setMetadata applied only when no later-issued poll has set a track yet
NewMetadataIfNewest(p, prev, songTitle, artist, coverUrl) ==
    IF \E i \in 1..Len(handled) : handled[i].id > p /\ handled[i].kind = "track"
    THEN prev
    ELSE [songtitle |-> songTitle, artist |-> artist,
          status |-> "online", cover |-> coverUrl]

\* setMetadata({ songtitle: songTitle, artist: artist, status: 'online', cover: coverUrl })
NewMetadata(p, prev, songTitle, artist, coverUrl) ==
    [songtitle |-> songTitle, artist |-> artist,
     status |-> "online", cover |-> coverUrl]

\* fetchMetadata from setMetadata to its end: the displayed track, the lyrics
\* reset and the history update with its write to local storage
Apply(p, coverUrl) ==
    LET songTitle == polls[p].songTitle
        artist == polls[p].artist
        updatedHistory == UpdatedHistory(history, songTitle, artist, coverUrl, now)
    IN  /\ metadata' = NewMetadata(p, metadata, songTitle, artist, coverUrl)
        /\ lyrics' = Null
        /\ showLyrics' = FALSE
        /\ history' = updatedHistory
        /\ localStorage' =
             IF SameTrack(history, songTitle, artist)
             THEN localStorage
             ELSE [localStorage EXCEPT !.radio_history = Stringify(updatedHistory)]
        /\ polls' = [polls EXCEPT ![p] = Ended]
        /\ handled' = Append(handled, Handled(p, "track", 200, songTitle, artist))
        /\ lyricsFor' = NoTrack
        /\ UNCHANGED <<req, vercel, isLiked, isLoading, now, isPlaying, audio, derived,
                       lyricsReq, isLyricsLoading, showHistory, ai>>

\* the catalog requests one poll has made so far
NoLookups == [id |-> 0, log |-> <<>>]
Lookup(catalog, result) == [catalog |-> catalog, result |-> result]

\* the iTunes lookup settles: a hit gives the cover, an empty result starts
\* the Deezer lookup, a throw leaves the cover undefined
ItunesSettles(p) ==
    /\ polls[p].pc = "itunes"
    /\ \E result \in LookupResults :
         /\ lookups' = [id |-> p, log |-> <<Lookup("itunes", result)>>]
         /\ IF result = "hit" THEN Apply(p, LargeArtwork(ItunesArtwork))
            ELSE IF result = "threw" THEN Apply(p, Undefined)
            ELSE /\ polls' = [polls EXCEPT ![p].pc = "deezer"]
                 /\ UNCHANGED <<req, vercel, metadata, history, isLiked, isLoading, lyrics,
                                showLyrics, localStorage, handled, now,
                                isPlaying, audio, derived, lyricsReq,
                   lyricsFor, isLyricsLoading, showHistory, ai>>

\* the Deezer lookup settles
DeezerSettles(p) ==
    /\ polls[p].pc = "deezer"
    /\ \E result \in LookupResults :
         /\ lookups' = [id |-> p,
                        log |-> <<Lookup("itunes", "empty"), Lookup("deezer", result)>>]
         /\ IF result = "hit" THEN Apply(p, DeezerCover) ELSE Apply(p, Undefined)

\* ---- audio element events
\* handleError
AudioError ==
    /\ metadata' = [metadata EXCEPT !.status = "offline"]
    /\ isLoading' = FALSE
    /\ UNCHANGED <<req, vercel, history, isLiked, lyrics, showLyrics, localStorage,
                   polls, handled, now>>
    /\ UNCHANGED <<isPlaying, audio, lookups, derived, lyricsReq,
                   lyricsFor, isLyricsLoading, showHistory, ai>>

\* handleCanPlay
AudioCanPlay ==
    /\ isLoading' = FALSE
    /\ UNCHANGED <<req, vercel, metadata, history, isLiked, lyrics, showLyrics,
                   localStorage, polls, handled, now>>
    /\ UNCHANGED <<isPlaying, audio, lookups, derived, lyricsReq,
                   lyricsFor, isLyricsLoading, showHistory, ai>>

\* ---- controls
STREAM_URL == "https://streaming.fox.srv.br:8150/;"

\* new Audio(STREAM_URL): loaded with the stream, paused, no play() called
InitialAudio == [src |-> STREAM_URL, paused |-> TRUE, playPromise |-> "none"]

\* String(newState)
BoolString(b) == IF b THEN "true" ELSE "false"

\* the value written before the negation
StoredLikeStale(newState) == BoolString(~newState)

\* localStorage.setItem('radio_liked', String(newState))
StoredLike(newState) == BoolString(newState)

\* toggleLike
ToggleLike ==
    LET newState == ~isLiked
    IN  /\ isLiked' = newState
        /\ localStorage' = [localStorage EXCEPT !.radio_liked = StoredLike(newState)]
        /\ UNCHANGED <<req, vercel, metadata, history, isLoading, lyrics, showLyrics,
                       polls, handled, now, isPlaying, audio, lookups, derived, lyricsReq,
                   lyricsFor, isLyricsLoading, showHistory, ai>>

\* togglePlay (audioRef.current is set from mount on)
TogglePlay ==
    /\ IF isPlaying
       THEN /\ audio' = [audio EXCEPT !.paused = TRUE, !.src = ""]
            /\ UNCHANGED isLoading
       ELSE /\ isLoading' = TRUE
            /\ audio' = [src |-> STREAM_URL, paused |-> FALSE, playPromise |-> "pending"]
    /\ isPlaying' = ~isPlaying
    /\ UNCHANGED <<req, vercel, metadata, history, isLiked, lyrics, showLyrics,
                   localStorage, polls, handled, now, lookups, derived, lyricsReq,
                   lyricsFor, isLyricsLoading, showHistory, ai>>

\* the play() promise resolves: nothing is attached to it but the catch
PlayResolves ==
    /\ audio.playPromise = "pending"
    /\ ~audio.paused
    /\ audio' = [audio EXCEPT !.playPromise = "resolved"]
    /\ UNCHANGED <<req, vercel, metadata, history, isLiked, isLoading, lyrics, showLyrics,
                   localStorage, polls, handled, now, isPlaying, lookups, derived, lyricsReq,
                   lyricsFor, isLyricsLoading, showHistory, ai>>

\* a rejection that puts the button back to "paused"
PlayingAfterRejectReset(playing) == FALSE

\* .catch(err => console.error("Playback error:", err))
PlayingAfterReject(playing) == playing

\* the play() promise rejects (autoplay policy, load error, or a pause or a
\* new load that came first): the element stays paused, the error is logged
PlayRejects ==
    /\ audio.playPromise = "pending"
    /\ audio' = [audio EXCEPT !.playPromise = "rejected", !.paused = TRUE]
    /\ isPlaying' = PlayingAfterReject(isPlaying)
    /\ UNCHANGED <<req, vercel, metadata, history, isLiked, isLoading, lyrics, showLyrics,
                   localStorage, polls, handled, now, lookups, derived, lyricsReq,
                   lyricsFor, isLyricsLoading, showHistory, ai>>

\* ---- lyrics
LyricsNotFound == <<"Letra nao encontrada para esta musica.">>
LyricsError == <<"Erro ao carregar a letra. Tente novamente mais tarde.">>

\* what api.lyrics.ovh returns for a track it knows
LyricsOf(artist, songtitle) == <<"lyrics of">> \o artist \o <<"/">> \o songtitle

\* the guard of fetchLyrics
CanFetchLyrics(m) ==
    Truthy(m.songtitle) /\ Truthy(m.artist) /\ m.songtitle # LoadingTitle

\* the "Letra" button: the lyrics panel opens or closes, the history panel
\* closes, and opening the panel without lyrics calls fetchLyrics for the
\* displayed track
LyricsButton ==
    LET nextShowLyrics == ~showLyrics
        fetches == nextShowLyrics /\ ~Truthy(lyrics) /\ CanFetchLyrics(metadata)
    IN  /\ showLyrics' = nextShowLyrics
        /\ showHistory' = FALSE
        /\ lyricsReq' = IF fetches THEN lyricsReq \cup {DisplayedTrack} ELSE lyricsReq
        /\ isLyricsLoading' = IF fetches THEN TRUE ELSE isLyricsLoading
        /\ UNCHANGED <<req, vercel, metadata, history, isLiked, isLoading, lyrics,
                       localStorage, polls, handled, now, isPlaying, audio,
                       lookups, derived, lyricsFor, ai>>

\* the lyrics panel left as it is
LyricsPanelKept(open) == open

\* if (showLyrics) setShowLyrics(false)
LyricsPanelAfterHistoryClick(open) == IF open THEN FALSE ELSE open

\* the history button: the history panel opens or closes, the lyrics panel
\* closes
HistoryButton ==
    /\ showHistory' = ~showHistory
    /\ showLyrics' = LyricsPanelAfterHistoryClick(showLyrics)
    /\ UNCHANGED <<req, vercel, metadata, history, isLiked, isLoading, lyrics,
                   localStorage, polls, handled, now, isPlaying, audio,
                   lookups, derived, lyricsReq, lyricsFor, isLyricsLoading, ai>>

LyricsResults == {"found", "none", "threw"}

\* a lyrics request settles: the text, the not-found message, or the error
\* message becomes the lyrics
LyricsSettles ==
    \E r \in lyricsReq : \E result \in LyricsResults :
        /\ lyrics' = IF result = "found" THEN LyricsOf(r.artist, r.songtitle)
                      ELSE IF result = "none" THEN LyricsNotFound
                      ELSE LyricsError
        /\ lyricsFor' = r
        /\ isLyricsLoading' = FALSE
        /\ lyricsReq' = lyricsReq \ {r}
        /\ UNCHANGED <<req, vercel, metadata, history, isLiked, isLoading, showLyrics,
                       localStorage, polls, handled, now, isPlaying, audio,
                       lookups, derived, showHistory, ai>>

\* ---- AI insight
AiFallback == <<"Nao consegui encontrar curiosidades agora.">>
AiError == <<"Ops! Ocorreu um erro ao buscar curiosidades.">>

\* what Gemini says about a track
InsightOf(artist, songtitle) == <<"insight on">> \o artist \o <<"/">> \o songtitle

NoAi == [aiInsight |-> Null, isAiLoading |-> FALSE, request |-> NoTrack]

\* the guard of getAiInsight
CanAskAi(m) == Truthy(m.songtitle) /\ m.songtitle # LoadingTitle

\* the sparkles button (disabled while isAiLoading): getAiInsight up to its
\* await, with the displayed track in the prompt
AiButton ==
    /\ ~ai.isAiLoading
    /\ CanAskAi(metadata)
    /\ ai' = [ai EXCEPT !.isAiLoading = TRUE, !.request = DisplayedTrack]
    /\ UNCHANGED <<req, vercel, metadata, history, isLiked, isLoading, lyrics,
                   showLyrics, localStorage, polls, handled, now, isPlaying, audio,
                   lookups, derived, lyricsReq, lyricsFor, isLyricsLoading,
                   showHistory>>

AiResults == {"text", "empty", "threw"}

\* generateContent settles: the text, the fallback or the error message
\* becomes the insight, and the spinner stops
AiSettles ==
    /\ ai.request # NoTrack
    /\ \E result \in AiResults :
         ai' = [aiInsight |->
                   IF result = "text"
                   THEN InsightOf(ai.request.artist, ai.request.songtitle)
                   ELSE IF result = "empty" THEN AiFallback
                   ELSE AiError,
                isAiLoading |-> FALSE,
                request |-> NoTrack]
    /\ UNCHANGED <<req, vercel, metadata, history, isLiked, isLoading, lyrics,
                   showLyrics, localStorage, polls, handled, now, isPlaying, audio,
                   lookups, derived, lyricsReq, lyricsFor, isLyricsLoading,
                   showHistory>>

\* the close button of the insight: setAiInsight(null)
AiDismiss ==
    /\ Truthy(ai.aiInsight)
    /\ ai' = [ai EXCEPT !.aiInsight = Null]
    /\ UNCHANGED <<req, vercel, metadata, history, isLiked, isLoading, lyrics,
                   showLyrics, localStorage, polls, handled, now, isPlaying, audio,
                   lookups, derived, lyricsReq, lyricsFor, isLyricsLoading,
                   showHistory>>

\* ---- environment
\* time passes
Tick ==
    /\ now < MaxClock
    /\ now' = now + 1
    /\ UNCHANGED <<req, vercel, metadata, history, isLiked, isLoading, lyrics, showLyrics,
                   localStorage, polls, handled>>
    /\ UNCHANGED <<isPlaying, audio, lookups, derived, lyricsReq,
                   lyricsFor, isLyricsLoading, showHistory, ai>>

\* the page is reloaded: the component state starts over, the polls in flight
\* are gone with the old page, local storage stays, and the mount effects run
Reload ==
    /\ \E p \in PollIds : polls[p].pc = "unissued"
    /\ metadata' = InitialMetadata
    /\ isLoading' = TRUE
    /\ lyrics' = Null
    /\ showLyrics' = FALSE
    /\ isLiked' = MountedLike(localStorage)
    /\ history' = MountedHistory(localStorage)
    /\ polls' = [p \in PollIds |->
                   IF p = NextPoll THEN Awaiting("proxy", Undefined, Undefined)
                   ELSE IF polls[p].pc = "unissued" THEN Unissued
                   ELSE Ended]
    /\ handled' = <<>>
    /\ isPlaying' = FALSE
    /\ audio' = InitialAudio
    /\ lookups' = NoLookups
    /\ lyricsReq' = {}
    /\ lyricsFor' = NoTrack
    /\ isLyricsLoading' = FALSE
    /\ showHistory' = FALSE
    /\ ai' = NoAi
    /\ UNCHANGED <<req, vercel, localStorage, now, derived>>

\* no songtitle has been split yet
NoDerivation ==
    [input |-> <<>>,
     track |-> [songTitle |-> Undefined, artist |-> Undefined],
     trackFox |-> [songTitle |-> Undefined, artist |-> Undefined]]

\* the component has mounted in a browser whose local storage holds store
Mounted(store) ==
    /\ localStorage = store
    /\ metadata = InitialMetadata
    /\ isLoading = TRUE
    /\ lyrics = Null
    /\ showLyrics = FALSE
    /\ isLiked = MountedLike(localStorage)
    /\ history = MountedHistory(localStorage)
    /\ polls = [p \in PollIds |->
                  IF p = 1 THEN Awaiting("proxy", Undefined, Undefined) ELSE Unissued]
    /\ handled = <<>>
    /\ now = 0
    /\ isPlaying = FALSE
    /\ audio = InitialAudio
    /\ lookups = NoLookups
    /\ lyricsReq = {}
    /\ lyricsFor = NoTrack
    /\ isLyricsLoading = FALSE
    /\ showHistory = FALSE
    /\ ai = NoAi

\* the component has mounted in a browser whose local storage is fresh or
\* was written by an earlier session
PlayerInit ==
    /\ \E stored \in StoredHistories :
         Mounted([radio_liked |-> "none", radio_history |-> stored])
    /\ derived = NoDerivation

NextPlayer ==
    \/ Timer
    \/ \E p \in PollIds : PollThrows(p)
    \/ \E p \in PollIds : PollAnswered(p)
    \/ \E p \in PollIds : ItunesSettles(p)
    \/ \E p \in PollIds : DeezerSettles(p)
    \/ AudioError
    \/ AudioCanPlay
    \/ Tick
    \/ Reload

Init == ProxyInit /\ HandlerInit /\ PlayerInit

\* the proxy handling one request after another
SpecProxy == Init /\ [][NextProxy]_vars

\* the player in the browser
Spec == Init /\ [][NextPlayer]_vars

\* what an earlier session may have left under 'radio_liked'
StoredLikes == {"none", "true", "false", "1"}

\* the component has mounted in a browser with any stored like flag
ControlsInit ==
    /\ \E liked \in StoredLikes :
         Mounted([radio_liked |-> liked, radio_history |-> NoItem])
    /\ derived = NoDerivation

InitControls == ProxyInit /\ HandlerInit /\ ControlsInit

\* the listener's buttons, the audio element's events and promise, page
\* reloads, and polls of a proxy that is out of reach
NextControls ==
    \/ ToggleLike
    \/ TogglePlay
    \/ PlayResolves
    \/ PlayRejects
    \/ AudioError
    \/ AudioCanPlay
    \/ Timer
    \/ \E p \in PollIds : PollThrows(p)
    \/ Reload

\* the player with a listener at the controls
SpecControls == InitControls /\ [][NextControls]_vars

\* a value under 'radio_history' that JSON.parse rejects
CorruptItem == [json |-> "corrupt", items |-> <<>>]

\* the component has mounted in a browser whose stored history is corrupt
CorruptInit ==
    /\ \E liked \in StoredLikes :
         Mounted([radio_liked |-> liked, radio_history |-> CorruptItem])
    /\ derived = NoDerivation

InitCorrupt == ProxyInit /\ HandlerInit /\ CorruptInit

\* the player started over a corrupt stored history
SpecCorrupt == InitCorrupt /\ [][NextPlayer]_vars

\* the polls, the cover lookups, page reloads and the lyrics panel
NextLyrics ==
    \/ LyricsButton
    \/ HistoryButton
    \/ LyricsSettles
    \/ Timer
    \/ \E p \in PollIds : PollThrows(p)
    \/ \E p \in PollIds : PollAnswered(p)
    \/ \E p \in PollIds : ItunesSettles(p)
    \/ \E p \in PollIds : DeezerSettles(p)
    \/ Reload

\* the player with a listener at the lyrics panel
SpecLyrics == Init /\ [][NextLyrics]_vars

\* a freshly mounted player in a browser without stored values
InitPanels ==
    /\ ProxyInit
    /\ HandlerInit
    /\ Mounted([radio_liked |-> "none", radio_history |-> NoItem])
    /\ derived = NoDerivation

\* the polls and cover lookups with a listener who asks for lyrics and
\* insights
NextPanels ==
    \/ LyricsButton
    \/ LyricsSettles
    \/ AiButton
    \/ AiSettles
    \/ AiDismiss
    \/ Timer
    \/ \E p \in PollIds : PollThrows(p)
    \/ \E p \in PollIds : PollAnswered(p)
    \/ \E p \in PollIds : ItunesSettles(p)
    \/ \E p \in PollIds : DeezerSettles(p)

SpecPanels == InitPanels /\ [][NextPanels]_vars

\* a handler invocation, whatever the station is playing
InitHandler ==
    /\ ProxyInit
    /\ \E data \in HandlerDocs : vercel = [IdleHandler EXCEPT !.station = data]
    /\ Mounted([radio_liked |-> "none", radio_history |-> NoItem])
    /\ derived = NoDerivation

\* the serverless handler when every request it makes settles
SpecHandler ==
    InitHandler /\ [][NextHandler]_vars
      /\ WF_vars(HandlerStatus) /\ WF_vars(HandlerCover)

\* a songtitle has arrived and is about to be split
DeriveInit ==
    /\ Mounted([radio_liked |-> "none", radio_history |-> NoItem])
    /\ \E songtitle \in TitleInputs :
         derived = [NoDerivation EXCEPT !.input = songtitle]

InitDerive == ProxyInit /\ HandlerInit /\ DeriveInit

\* lines 105-107 of fetchMetadata, and the same lines of the earlier component
Derive ==
    /\ derived.track.songTitle = Undefined
    /\ derived' = [derived EXCEPT !.track = DeriveTrack(derived.input),
                                  !.trackFox = DeriveTrackFox(derived.input)]
    /\ UNCHANGED <<req, vercel, metadata, history, isLiked, isLoading, lyrics, showLyrics,
                   localStorage, polls, handled, now, isPlaying, audio, lookups,
                   lyricsReq,
                   lyricsFor, isLyricsLoading, showHistory, ai>>

\* the derivation of (artist, title) from any songtitle
SpecDerive == InitDerive /\ [][Derive]_vars

\* the proxy when every upstream fetch settles: node-fetch resolves or
\* rejects each request (the timeout option rejects the ones left hanging)
SpecProxyFair ==
    Init /\ [][NextProxy]_vars /\ WF_vars(TryEndpoint) /\ WF_vars(TryLegacy)

\* ====================================================================
\* Properties of the proxy, checked under SpecProxy
\* ====================================================================

\* an upstream reply that counts as a failed endpoint: the fetch threw, the
\* status was not ok, or the body does not parse as JSON
StatusFailed(reply) ==
    reply.threw \/ ~reply.ok \/ reply.body.parsed.kind = "SyntaxError"

\* a /7.html reply that counts as a failed legacy attempt
LegacyFailed(reply) ==
    reply.threw \/ ~reply.ok \/ Len(Split(reply.body.text, Comma)) < 7

FallbackOrder == <<UrlA, UrlB, UrlAHttp, UrlLegacy>>

AllStatusFailed ==
    /\ Len(req.replies) >= 3
    /\ \A i \in 1..3 : StatusFailed(req.replies[i])

\* C1: the upstream endpoints are contacted in the order A, B, A over http,
\* /7.html, and each one only after every earlier one has replied and failed.
C1_FallbackOrder ==
    /\ Len(req.contacted) <= Len(FallbackOrder)
    /\ \A i \in 1..Len(req.contacted) :
         /\ req.contacted[i] = FallbackOrder[i]
         /\ \A j \in 1..(i - 1) :
              j <= Len(req.replies) /\ StatusFailed(req.replies[j])

\* the legacy endpoint is being contacted after a throw, a bad status and an
\* unparseable body
C1_Witness ==
    /\ Len(req.contacted) = 4
    /\ req.replies[1].threw
    /\ ~req.replies[2].threw /\ ~req.replies[2].ok
    /\ req.replies[3].ok /\ req.replies[3].body.parsed.kind = "SyntaxError"

\* C2: the first JSON endpoint that replies ok with a parseable body ends the
\* request: the response is exactly the parsed data and nothing is contacted
\* after it.
C2_StopsAtFirstSuccess ==
    \A i \in 1..Len(req.replies) :
        (i <= 3 /\ ~StatusFailed(req.replies[i])) =>
            /\ i = Len(req.replies)
            /\ Len(req.contacted) = i
            /\ req.pc = "done"
            /\ req.res = [status |-> 200, body |-> req.replies[i].body.parsed]

\* the second endpoint succeeded with the Icecast document after the first
\* failed
C2_Witness ==
    /\ req.pc = "done"
    /\ Len(req.replies) = 2
    /\ ~StatusFailed(req.replies[2])
    /\ req.res.body = IcecastDoc(TitleAS)

\* C3: when the three JSON endpoints failed and /7.html replies ok with at
\* least 7 comma-delimited fields, the response is {songtitle: 7th field}.
C3_LegacySeventhField ==
    ( /\ req.pc = "done"
      /\ Len(req.replies) = 4
      /\ AllStatusFailed
      /\ ~LegacyFailed(req.replies[4]) )
    => req.res =
         [status |-> 200,
          body |-> JsonObject(Split(req.replies[4].body.text, Comma)[7],
                              Undefined, Undefined, Undefined)]

\* a line of 8 fields was answered with its 7th
C3_Witness ==
    /\ req.pc = "done"
    /\ Len(req.replies) = 4
    /\ Len(Split(req.replies[4].body.text, Comma)) = 8
    /\ req.res.status = 200
    /\ req.res.body.songtitle = TitleBT

\* C4: when the three JSON endpoints and the legacy attempt all failed the
\* response is HTTP 500 with the generic error, and a 500 is sent in no other
\* case.
C4_GenericFailure ==
    /\ ( /\ req.pc = "done"
         /\ Len(req.replies) = 4
         /\ AllStatusFailed
         /\ LegacyFailed(req.replies[4]) )
       => (req.res.status = 500 /\ req.res.body.error = GenericError)
    /\ req.res.status = 500
       => ( /\ req.pc = "done"
            /\ Len(req.replies) = 4
            /\ AllStatusFailed
            /\ LegacyFailed(req.replies[4]) )

\* a 500 sent because /7.html replied ok with fewer than 7 fields
C4_Witness ==
    /\ req.res.status = 500
    /\ Len(req.replies) = 4
    /\ req.replies[4].ok
    /\ Len(Split(req.replies[4].body.text, Comma)) = 3
    /\ req.res.body.error = GenericError

\* ====================================================================
\* Properties of the player, checked under Spec
\* ====================================================================

\* a step in which the handling of one poll ends
PollEnds == Len(handled') = Len(handled) + 1

StoredItems ==
    IF localStorage.radio_history.json = "array"
    THEN localStorage.radio_history.items ELSE <<>>

\* C5: the in-memory history and the list stored under 'radio_history' never
\* hold more than 10 entries.
C5_HistoryBounded ==
    /\ Len(history) <= 10
    /\ Len(StoredItems) <= 10

\* two entries with covers were put in front of a restored list of 9 entries
\* without covers, and both lists hold 10
C5_Witness ==
    /\ Len(history) = 10
    /\ Len(StoredItems) = 10
    /\ history[1].cover # Undefined
    /\ history[2].cover # Undefined
    /\ history[3].cover = Undefined

SameEntry(a, b) == a.songtitle = b.songtitle /\ a.artist = b.artist

\* C6: an appended track goes to index 0, the entries already present keep
\* their order one place further down, only what falls beyond index 9 is
\* dropped, and the timestamps never increase from index 0 onward.
C6_NewestFirst ==
    /\ [][(PollEnds /\ history' # history) =>
            /\ Len(history') = (IF Len(history) < 10 THEN Len(history) + 1 ELSE 10)
            /\ history'[1].songtitle = Last(handled').songTitle
            /\ history'[1].artist = Last(handled').artist
            /\ history'[1].timestamp = now
            /\ \A i \in 1..Len(history) :
                 i + 1 <= 10 => history'[i + 1] = history[i]]_vars
    /\ [](\A i \in 1..Len(history) : \A j \in i..Len(history) :
            history[i].timestamp >= history[j].timestamp)

\* a full list whose newest entry is later than its oldest, after two appends
\* to a restored list of 9
C6_Witness ==
    /\ Len(history) = 10
    /\ history[1].timestamp = 1
    /\ history[10].timestamp = 0
    /\ history[1].cover # Undefined
    /\ history[2].cover # Undefined

\* C7: a poll that ends with the track of history[0] changes neither the
\* history nor the stored list, and no two neighbours in the history are the
\* same (songtitle, artist).
C7_NoConsecutiveDuplicates ==
    /\ [][( /\ PollEnds
            /\ Last(handled').kind = "track"
            /\ Len(history) > 0
            /\ history[1].songtitle = Last(handled').songTitle
            /\ history[1].artist = Last(handled').artist )
          => ( /\ history' = history
               /\ localStorage'.radio_history = localStorage.radio_history )]_vars
    /\ [](\A i \in 1..(Len(history) - 1) : ~SameEntry(history[i], history[i + 1]))

\* two overlapping polls, the second handled first, ended with the same track
\* and the history holds it once
C7_Witness ==
    /\ Len(handled) = 2
    /\ handled[1].id = 2 /\ handled[2].id = 1
    /\ handled[1].kind = "track" /\ handled[2].kind = "track"
    /\ handled[1].songTitle = handled[2].songTitle
    /\ handled[1].artist = handled[2].artist
    /\ Len(history) = 1
    /\ Len(StoredItems) = 1

\* C8: whenever the proxy answers a poll with status 200, the handling of that
\* poll ends with a derived (artist, title) pair displayed with status 'online'.
C8_SuccessfulAnswerDisplayed ==
    [][(PollEnds /\ Last(handled').status = 200) =>
         /\ Last(handled').kind = "track"
         /\ metadata'.songtitle = Last(handled').songTitle
         /\ metadata'.artist = Last(handled').artist
         /\ metadata'.status = "online"]_vars

\* the displayed state is one of the placeholders
Placeholder ==
    \/ metadata.songtitle = LoadingTitle
    \/ metadata.status = "offline"
    \/ metadata.songtitle = ErrorTitle

\* C9: after a failed poll (the request threw, the body was not JSON, or the
\* proxy sent its 500 failure) the displayed state is a placeholder.
C9_FailedPollShowsPlaceholder ==
    ( /\ Len(handled) > 0
      /\ (Last(handled).kind = "error" \/ Last(handled).status = 500) )
    => Placeholder

\* C10: the displayed track is the one set by the poll whose handling ended
\* last, whatever the order in which the polls were issued.
C10_LastHandledWins ==
    Len(handled) > 0 =>
        /\ Last(handled).kind = "track" =>
             /\ metadata.songtitle = Last(handled).songTitle
             /\ metadata.artist = Last(handled).artist
        /\ Last(handled).kind = "error" =>
             /\ metadata.songtitle = ErrorTitle
             /\ metadata.artist = StationName

\* poll 2 was handled before poll 1, with another track, and the track of
\* poll 1 is displayed
C10_Witness ==
    /\ Len(handled) = 2
    /\ handled[1].id = 2 /\ handled[2].id = 1
    /\ handled[1].kind = "track" /\ handled[2].kind = "track"
    /\ handled[1].songTitle # handled[2].songTitle
    /\ metadata.songtitle = handled[2].songTitle
    /\ metadata.artist = handled[2].artist

\* ====================================================================
\* Properties of the proxy, checked under SpecProxyFair
\* ====================================================================

\* C11: within one request no endpoint is contacted twice (at most 4 upstream
\* requests), a request whose fetches all settle ends, and it ends with one
\* response that is sent when the handler ends and not replaced afterwards.
C11_NoRetryOneResponse ==
    /\ [](/\ Len(req.contacted) <= 4
          /\ \A i \in 1..Len(req.contacted) : \A j \in 1..Len(req.contacted) :
               i # j => req.contacted[i] # req.contacted[j])
    /\ []((req.pc = "done") <=> (req.res # NoResponse))
    /\ [][(req.pc = "done" /\ req'.pc = "done") => req'.res = req.res]_vars
    /\ (req.pc \in {"loop", "legacy"}) ~> (req.pc = "done")

\* all four endpoints were contacted, each once, and the request ended with
\* the failure response
C11_Witness ==
    /\ req.pc = "done"
    /\ req.contacted = <<UrlA, UrlB, UrlAHttp, UrlLegacy>>
    /\ Len(req.replies) = 4
    /\ req.res.status = 500

\* ====================================================================
\* Properties of the player's persistence, checked under Spec
\* ====================================================================

\* C12: the in-memory history is the list a mount would restore from
\* 'radio_history', and every append stores the serialization of the new list.
C12_PersistedMirrorsHistory ==
    /\ [](history = IF localStorage.radio_history.json = "array"
                    THEN Parse(localStorage.radio_history) ELSE <<>>)
    /\ [][(PollEnds /\ history' # history) =>
            localStorage'.radio_history = Stringify(history')]_vars

\* a reload after an append with a cover: the restored list holds the 10
\* entries, the new one first
C12_Witness ==
    /\ handled = <<>>
    /\ polls[2].pc = "proxy"
    /\ Len(history) = 10
    /\ history[1].cover # Undefined
    /\ Len(StoredItems) = 10

\* ====================================================================
\* Properties of the controls, checked under SpecControls
\* ====================================================================

\* C13: the like flag is true exactly when 'radio_liked' holds 'true', on
\* mount and ever after; every change of the flag or of the stored value is a
\* negation of the flag that stores String of the new flag; and once the
\* stored value is String(isLiked) it stays so.
C13_LikeRoundTrips ==
    /\ [](isLiked = (localStorage.radio_liked = "true"))
    /\ [][(isLiked' # isLiked \/ localStorage'.radio_liked # localStorage.radio_liked) =>
            /\ isLiked' = ~isLiked
            /\ localStorage'.radio_liked = BoolString(isLiked')]_vars
    /\ [][(localStorage.radio_liked = BoolString(isLiked)) =>
            localStorage'.radio_liked = BoolString(isLiked')]_vars

\* a page reloaded over a stored 'true': no poll handled yet, an earlier
\* page's poll gone, the flag restored
C13_Witness ==
    /\ handled = <<>>
    /\ \E p \in PollIds : polls[p] = Ended
    /\ localStorage.radio_liked = "true"
    /\ isLiked

\* a call of togglePlay: the element starts, or its source is emptied
TogglePlayStep ==
    \/ audio.paused /\ ~audio'.paused
    \/ audio.src # "" /\ audio'.src = ""

PlaySettles(outcome) ==
    audio.playPromise = "pending" /\ audio'.playPromise = outcome

\* C14: every togglePlay negates isPlaying; the settling of play(), either
\* way, leaves isPlaying alone; and a rejection leaves isPlaying, isLoading
\* and metadata as they were.
C14_FireAndForget ==
    /\ [][TogglePlayStep => isPlaying' = ~isPlaying]_vars
    /\ [][(PlaySettles("resolved") \/ PlaySettles("rejected")) =>
            isPlaying' = isPlaying]_vars
    /\ [][PlaySettles("rejected") =>
            /\ isPlaying' = isPlaying
            /\ isLoading' = isLoading
            /\ metadata' = metadata]_vars

\* play() was rejected and the player still shows playing and loading
C14_Witness ==
    /\ audio.playPromise = "rejected"
    /\ audio.paused
    /\ isPlaying
    /\ isLoading

\* ====================================================================
\* Properties of the mount over a corrupt history, checked under SpecCorrupt
\* ====================================================================

\* C15: while the stored history is corrupt the history is empty and the like
\* flag is the stored one; the first track that ends a poll then makes the
\* history that one track and stores it as a valid list.
C15_CorruptHistoryNotFatal ==
    /\ []((localStorage.radio_history = CorruptItem) =>
            /\ history = <<>>
            /\ isLiked = (localStorage.radio_liked = "true"))
    /\ [][( /\ localStorage.radio_history = CorruptItem
            /\ PollEnds
            /\ Last(handled').kind = "track" ) =>
          ( /\ Len(history') = 1
            /\ history'[1].songtitle = Last(handled').songTitle
            /\ history'[1].artist = Last(handled').artist
            /\ localStorage'.radio_history = Stringify(history') )]_vars

\* started over a corrupt value with the like flag stored, two tracks later
C15_Witness ==
    /\ isLiked
    /\ Len(history) = 2
    /\ localStorage.radio_history = Stringify(history)
    /\ Len(handled) = 2
    /\ Last(handled).kind = "track"

\* ====================================================================
\* Properties of the derivation of artist and title, checked under SpecDerive
\* ====================================================================

\* the songtitle has been split
Derived == derived.track.songTitle # Undefined

SeparatorPositions(s) == {i \in 1..Len(s) : IsAt(s, Separator, i)}
HasSeparator(s) == SeparatorPositions(s) # {}
BeforeFirst(s) == SubSeq(s, 1, Min(SeparatorPositions(s)) - 1)
AfterFirst(s) == SubSeq(s, Min(SeparatorPositions(s)) + Len(Separator), Len(s))

\* artist + ' - ' + title gives back the songtitle
RoundTrips(track, s) == track.artist \o Separator \o track.songTitle = s

\* C16 as stated: for every songtitle with a separator the artist is the text
\* before the first separator, the title all the text after it, and artist +
\* ' - ' + title is the songtitle.
C16_Original ==
    (Derived /\ HasSeparator(derived.input)) =>
        /\ derived.track.artist = BeforeFirst(derived.input)
        /\ derived.track.songTitle = AfterFirst(derived.input)
        /\ RoundTrips(derived.track, derived.input)

\* C16: for every songtitle with a separator, in both components: when the
\* text before the first separator and the text after it are both non-empty,
\* the artist is the first, the title the second (later separators kept) and
\* artist + ' - ' + title is the songtitle; when the text before is empty
\* the artist is the component's default name; when the text after is empty
\* the title is the whole songtitle.
C16_SeparatorSplit ==
    (Derived /\ HasSeparator(derived.input)) =>
        LET s == derived.input
            before == BeforeFirst(s)
            after == AfterFirst(s)
        IN  /\ derived.track.artist = (IF before # <<>> THEN before ELSE StationName)
            /\ derived.trackFox.artist = (IF before # <<>> THEN before ELSE FoxName)
            /\ derived.track.songTitle = (IF after # <<>> THEN after ELSE s)
            /\ derived.trackFox.songTitle = derived.track.songTitle
            /\ (before # <<>> /\ after # <<>>) =>
                  /\ RoundTrips(derived.track, s)
                  /\ RoundTrips(derived.trackFox, s)

\* 'A - A - A' split into 'A' and 'A - A'
C16_Witness ==
    /\ derived.input = <<"A", " ", "-", " ", "A", " ", "-", " ", "A">>
    /\ derived.track.artist = <<"A">>
    /\ derived.track.songTitle = <<"A", " ", "-", " ", "A">>

\* C17: for a songtitle without separator the title is the whole songtitle
\* and the artist is 'SoundPop'.
C17_NoSeparatorDefaultArtist ==
    (Derived /\ ~HasSeparator(derived.input)) =>
        /\ derived.track.songTitle = derived.input
        /\ derived.track.artist = StationName

\* ====================================================================
\* Properties of the polls beside the lyrics panel, checked under SpecLyrics
\* ====================================================================

\* a poll ends in the catch of fetchMetadata
PollFails == PollEnds /\ Last(handled').kind = "error"

\* C18: a poll that ends in the catch shows status 'online', the error title
\* and 'SoundPop' with the cover it found, and leaves the history, the stored
\* history, the lyrics and the lyrics panel as they were.
C18_ErrorFrame ==
    [][PollFails =>
        /\ metadata' = [songtitle |-> ErrorTitle, artist |-> StationName,
                        status |-> "online", cover |-> metadata.cover]
        /\ history' = history
        /\ localStorage'.radio_history = localStorage.radio_history
        /\ lyrics' = lyrics
        /\ showLyrics' = showLyrics]_vars

\* a poll failed while a cover, a history, lyrics and the open panel were there
C18_Witness ==
    /\ handled # <<>>
    /\ Last(handled).kind = "error"
    /\ metadata.songtitle = ErrorTitle
    /\ metadata.cover # Undefined
    /\ Len(history) > 0
    /\ Truthy(lyrics)
    /\ showLyrics

\* ====================================================================
\* Properties of the cover lookups, checked under Spec
\* ====================================================================

\* a poll ends having set a track, and its lookups are the ones logged
TrackSet ==
    /\ PollEnds
    /\ Last(handled').kind = "track"
    /\ lookups'.id = Last(handled').id

\* C19: a poll whose last cover lookup threw or found nothing still shows its
\* (songtitle, artist) with status 'online' and no cover, and still updates the
\* history: unchanged if the track is already the newest entry, otherwise the
\* track without cover is the newest entry and the list is stored.
C19_LookupFailureNeverBlocks ==
    [][(TrackSet /\ Last(lookups'.log).result # "hit") =>
        LET h == Last(handled')
        IN  /\ metadata' = [songtitle |-> h.songTitle, artist |-> h.artist,
                            status |-> "online", cover |-> Undefined]
            /\ IF /\ Len(history) > 0
                  /\ history[1].songtitle = h.songTitle
                  /\ history[1].artist = h.artist
               THEN history' = history
               ELSE /\ history'[1] = HistoryItem(h.songTitle, h.artist, Undefined, now)
                    /\ localStorage'.radio_history = Stringify(history')]_vars

\* iTunes found nothing, Deezer threw, and the track is shown and recorded
\* without cover
C19_Witness ==
    /\ handled # <<>>
    /\ Last(handled).kind = "track"
    /\ lookups.id = Last(handled).id
    /\ lookups.log = <<Lookup("itunes", "empty"), Lookup("deezer", "threw")>>
    /\ metadata.songtitle = Last(handled).songTitle
    /\ metadata.status = "online"
    /\ metadata.cover = Undefined
    /\ Len(history) > 0
    /\ history[1].songtitle = Last(handled).songTitle
    /\ history[1].cover = Undefined

\* C20: of a poll that sets a track, iTunes is the first catalog asked, Deezer
\* is asked exactly when iTunes gave no artwork, and the cover is the iTunes
\* artwork if there is one, else the Deezer cover if there is one, else
\* undefined.
C20_ItunesThenDeezer ==
    [][TrackSet =>
        LET log == lookups'.log
        IN  /\ log[1].catalog = "itunes"
            /\ (Len(log) = 2) <=> (log[1].result # "hit")
            /\ Len(log) = 2 => log[2].catalog = "deezer"
            /\ metadata'.cover =
                 IF log[1].result = "hit" THEN LargeArtwork(ItunesArtwork)
                 ELSE IF Len(log) = 2 /\ log[2].result = "hit" THEN DeezerCover
                 ELSE Undefined]_vars

\* ====================================================================
\* Properties of the lyrics beside the polls, checked under SpecLyrics
\* ====================================================================

\* a poll ends having set a track
PollSucceeds == PollEnds /\ Last(handled').kind = "track"

\* the track a poll ends with is the displayed one
PolledIsDisplayed ==
    /\ Last(handled').songTitle = metadata.songtitle
    /\ Last(handled').artist = metadata.artist

\* C21: a poll that ends with a track other than the displayed one sets the
\* lyrics to null and closes the lyrics panel; a poll that ends with the
\* displayed track leaves the lyrics and the panel as they were.
C21_LyricsResetOnChange ==
    [][PollSucceeds =>
        IF PolledIsDisplayed
        THEN lyrics' = lyrics /\ showLyrics' = showLyrics
        ELSE lyrics' = Null /\ showLyrics' = FALSE]_vars

\* ====================================================================
\* Properties of the serverless handler, checked under SpecHandler
\* ====================================================================

AllSpaces(s) == \A i \in 1..Len(s) : s[i] = " "
NoOuterSpace(t) == t = <<>> \/ (Head(t) # " " /\ Last(t) # " ")

\* t is s without the white space at its two ends
IsTrimOf(t, s) ==
    /\ NoOuterSpace(t)
    /\ \E i \in 0..Len(s) :
         /\ i + Len(t) <= Len(s)
         /\ AllSpaces(SubSeq(s, 1, i))
         /\ SubSeq(s, i + 1, i + Len(t)) = t
         /\ AllSpaces(SubSeq(s, i + Len(t) + 1, Len(s)))

\* both requests of the invocation were answered
BothSucceeded ==
    vercel.pc = "done" /\ Len(vercel.log) = 2 /\ vercel.log[2] # "threw"

\* C22: an invocation sends at most one response and is over exactly when it
\* has sent one; it sends the 500 with the error text when a request threw;
\* it sends a 200 when both requests were answered, with artist and title
\* free of outer white space (for a song without separator an empty artist and
\* the trimmed song, for a song with one separator the trimmed texts before and
\* after it), cover null when the catalog gave no result and the enlarged
\* artwork when it gave one; a missing title gives title 'Desconhecido' and an
\* empty artist; and an invocation whose requests settle ends.
C22_HandlerRespondsOnce ==
    /\ [](/\ vercel.sent <= 1
          /\ (vercel.pc = "done") <=> (vercel.sent = 1)
          /\ (vercel.sent = 1) <=> (vercel.res # NoHandlerResponse))
    /\ []((vercel.pc = "done" /\ Last(vercel.log) = "threw") =>
            vercel.res = [status |-> 500, artist |-> Undefined, title |-> Undefined,
                          cover |-> Undefined, error |-> HandlerError])
    /\ [](BothSucceeded =>
            LET song == vercel.song
                res == vercel.res
            IN  /\ res.status = 200
                /\ res.error = Undefined
                /\ NoOuterSpace(res.artist)
                /\ NoOuterSpace(res.title)
                /\ ~HasSeparator(song) =>
                      res.artist = <<>> /\ IsTrimOf(res.title, song)
                /\ (HasSeparator(song) /\ ~HasSeparator(AfterFirst(song))) =>
                      /\ IsTrimOf(res.artist, BeforeFirst(song))
                      /\ IsTrimOf(res.title, AfterFirst(song))
                /\ song = UnknownSong =>
                      res.artist = <<>> /\ res.title = UnknownSong
                /\ vercel.log[2] \in {"null", "empty"} => res.cover = Null
                /\ vercel.log[2] = "hit" =>
                      res.cover = <<"https://itunes/art/", "300x300bb", ".jpg">>)
    /\ (vercel.pc \in {"status", "cover"}) ~> (vercel.pc = "done")

\* 'A  -  A' answered with artist 'A', title 'A' and the enlarged artwork
C22_Witness ==
    /\ vercel.pc = "done"
    /\ vercel.song = <<"A", " ", " ", "-", " ", " ", "A">>
    /\ vercel.log = <<"ok", "hit">>
    /\ vercel.res.status = 200
    /\ vercel.res.artist = <<"A">>
    /\ vercel.res.title = <<"A">>
    /\ vercel.res.cover # Null

\* ====================================================================
\* Properties of the panels, checked under SpecLyrics and SpecPanels
\* ====================================================================

\* C23: whenever lyrics are shown, they were requested for the displayed
\* (artist, songtitle).
C23_LyricsBelongToTrack ==
    Truthy(lyrics) => lyricsFor = DisplayedTrack

\* C24: the history panel and the lyrics panel are never both open.
C24_PanelsExclusive == ~(showHistory /\ showLyrics)

\* the history panel opened over a lyrics panel that had lyrics in it
C24_Witness ==
    /\ showHistory
    /\ ~showLyrics
    /\ Truthy(lyrics)
    /\ handled # <<>>

\* fetchLyrics or getAiInsight sends a request
RequestIssued ==
    \/ lyricsReq' # lyricsReq /\ lyricsReq \subseteq lyricsReq'
    \/ ai.request = NoTrack /\ ai'.request # NoTrack

\* C25: no lyrics request and no insight request is sent while the displayed
\* title is the loading title or the error title.
C25_NoRequestForPlaceholder ==
    [][RequestIssued => metadata.songtitle \notin {LoadingTitle, ErrorTitle}]_vars

\* ====================================================================
\* Properties of the loading indicator, checked under SpecControls
\* ====================================================================

\* togglePlay starts playback
PlaybackStarts == audio.paused /\ ~audio'.paused

\* C26: starting playback sets isLoading; and once togglePlay has paused
\* playback (isPlaying false, the source emptied) isLoading is false.
C26_LoadingTracksPlayRequest ==
    /\ [][PlaybackStarts => isLoading']_vars
    /\ []((~isPlaying /\ audio.src = "") => ~isLoading)

====
